---------------------------- MODULE Spec2Model ----------------------------
(***************************************************************************)
(* The release orchestrator of .github/publisher/src/main.rs: one run of   *)
(* main() over a tree of package directories, the external publish tool,   *)
(* and update_dependents() rewriting the manifests between publish steps.  *)
(*                                                                         *)
(* A manifest (Forc.toml) is the record                                    *)
(*    [name, version, deps]                                                *)
(* with deps a function from dependency names to entries                   *)
(*    [present, path, version]:                                            *)
(* an inline table that may hold a "path" key and a "version" key.  A      *)
(* dependency written as a plain version string behaves, for every line    *)
(* of main.rs, like an inline table without "path", and is that entry.     *)
(*                                                                         *)
(* External parts, modelled by their contract:                             *)
(*   - petgraph's Dfs yields exactly the nodes reachable from its start;   *)
(*     toposort yields some order in which every edge points forward, or   *)
(*     an error naming a node of a cycle;                                  *)
(*   - the publish tool reads the manifest on disk in its working          *)
(*     directory; for a (name, version) the registry is known to hold it   *)
(*     answers "already exists"; otherwise it succeeds, reports that the   *)
(*     version already exists, or fails for another reason;                *)
(*   - read_dir lists the package directories in no particular order.      *)
(***************************************************************************)
EXTENDS Naturals, Sequences, FiniteSets, TLC

(* ------------------------------ bounds --------------------------------- *)

\* Dependency entries declared in all manifests together.
MaxDeps == 2

\* Seed names on the command line.
MaxSeeds == 2

\* Runs of the program made one after the other on the same tree.
MaxRuns == 2

(* ----------------------------- the tree -------------------------------- *)

\* Package directories under standards/, in BTreeMap (byte) order of their names.
PkgNames == <<"src20", "src3", "src5">>

Pkgs == {PkgNames[i] : i \in 1..Len(PkgNames)}

\* A name that is no discovered package: a seed or a dependency may use it.
External == "abi"

DepNames == Pkgs \cup {External}

NoVersion == "none"

\* A manifest without project.name.
NoName == "none"

\* The versions the manifests declare; a version is an opaque string.
OwnVersion == [d \in Pkgs |-> CASE d = "src20" -> "0.8.1"
                                [] d = "src3" -> "1.2.0"
                                [] OTHER -> "2.0.0"]

\* A version reference written before this release.
OldVersion == "0.1.0"

\* The package whose manifest may lack the version field.
Unversioned == {"src3"}

NoEntry == [present |-> FALSE, path |-> FALSE, version |-> NoVersion]

PathEntry(v) == [present |-> TRUE, path |-> TRUE, version |-> v]

VersionEntry(v) == [present |-> TRUE, path |-> FALSE, version |-> v]

\* The entries a manifest may start with for a dependency on n: a local path
\* (for src20, beside the version released last) or a version reference.
InitialEntries(n) ==
  {IF n = "src20" THEN PathEntry(OldVersion) ELSE PathEntry(NoVersion),
   VersionEntry(OldVersion)}

\* Who may declare a dependency on whom: a package on another package, and
\* src5 on a package outside the tree.  No package depends on itself.
DepSlots == {x \in Pkgs \X Pkgs : x[1] # x[2]} \cup {<<"src5", External>>}

SeedSets == {s \in SUBSET DepNames : Cardinality(s) <= MaxSeeds}

\* position of a directory name in BTreeMap order
Idx(d) == CHOOSE i \in 1..Len(PkgNames) : PkgNames[i] = d

VARIABLES
  token,              \* FORC_PUB_TOKEN is set
  args,               \* the command line: seed names
  disk,               \* directory -> the manifest stored in its Forc.toml
  registry,           \* <<name, version>> pairs known to be published
  pc,                 \* position in main(): "start", "publish" (the loop), "exit"
  all_packages_data,  \* directory -> the manifest held in memory
  node_map,           \* declared name -> graph node (a node is the directory it was added for)
  graph,              \* edges <<from, to>>
  to_publish_names,
  warnings,           \* the seeds a "not found" warning was printed for (lines 74-79)
  sorted_projects,
  next_ix,            \* index into sorted_projects of the next loop iteration
  result,             \* [code, why, who]: how the run ended
  outcome,            \* the tool's answer in the latest loop iteration (lines 122-144)
  invoked,            \* the packages the tool was invoked for in this run, in order
  writes,             \* this run's manifest writes, in order
  disk0,              \* the manifests on disk when this run started
  run,                \* number of the current run
  prev                \* [code, why, affected]: how the previous run ended

envVars == <<token, args, disk, registry>>
runVars == <<pc, all_packages_data, node_map, graph, to_publish_names, warnings,
             sorted_projects, next_ix, outcome, result>>
auditVars == <<invoked, writes, disk0, run, prev>>
vars == <<token, args, disk, registry, pc, all_packages_data, node_map, graph,
          to_publish_names, warnings, sorted_projects, next_ix, outcome, result,
          invoked, writes, disk0, run, prev>>

Running == [code |-> "running", why |-> "", who |-> ""]

Exit(code, why, who) == [code |-> code, why |-> why, who |-> who]

Empty == [x \in {} |-> x]

(* ------------------------------- Init ---------------------------------- *)

\* The manifest trees: every directory declares its own name, at most MaxDeps
\* dependency entries in all, and the packages of Unversioned may lack a version.
Tree(nov, slots, kind) ==
  [d \in Pkgs |->
     [name |-> d,
      version |-> IF d \in nov THEN NoVersion ELSE OwnVersion[d],
      deps |-> [n \in DepNames |-> IF <<d, n>> \in slots THEN kind[<<d, n>>] ELSE NoEntry]]]

Manifests ==
  UNION { { Tree(nov, slots, kind) : nov \in SUBSET Unversioned,
                                     kind \in {k \in [slots -> UNION {InitialEntries(n) : n \in DepNames}] :
                                                \A x \in slots : k[x] \in InitialEntries(x[2])} }
          : slots \in {s \in SUBSET DepSlots : Cardinality(s) <= MaxDeps} }

Init ==
  /\ token \in BOOLEAN
  /\ args \in SeedSets
  /\ disk \in Manifests
  /\ registry = {}
  /\ pc = "start"
  /\ all_packages_data = Empty
  /\ node_map = Empty
  /\ graph = {}
  /\ to_publish_names = {}
  /\ warnings = {}
  /\ sorted_projects = <<>>
  /\ next_ix = 1
  /\ outcome = "none"
  /\ result = Running
  /\ invoked = <<>>
  /\ writes = <<>>
  /\ disk0 = disk
  /\ run = 1
  /\ prev = [code |-> "none", why |-> "", affected |-> {}]

(* ------------------ lines 26-69: the index and the graph --------------- *)

\* find_sway_projects: the directories under standards/
ProjectPaths == DOMAIN disk

DeclaredNames(data) == {data[d].name : d \in DOMAIN data}

\* lines 51-52: one node per directory; node_map keeps, for a name, the node
\* inserted last, and read_dir fixes no order.
NodeMaps(data) ==
  {nm \in [DeclaredNames(data) -> DOMAIN data] : \A n \in DOMAIN nm : data[nm[n]].name = n}

\* line 57: the manifest has a dependencies table
HasDependencies(m) == \E n \in DOMAIN m.deps : m.deps[n].present

\* Mutant of IsPathDep: any entry for the name counts, with or without "path".
IsAnyDep(m, n) == n \in DOMAIN m.deps /\ m.deps[n].present

\* lines 60-61: the entry is an inline table holding "path"
IsPathDep(m, n) == n \in DOMAIN m.deps /\ m.deps[n].present /\ m.deps[n].path

\* line 58: node_map[project_name] with the directory's name panics when no
\* manifest declares that name
GraphPanics(data, nm) ==
  \E d \in DOMAIN data : HasDependencies(data[d]) /\ d \notin DOMAIN nm

\* Mutant of Edges: the edge points from the dependent to its dependency.
EdgesReversed(data, nm) ==
  { <<nm[e[1]], nm[e[2]]>> :
      e \in { x \in (DOMAIN data) \X (DOMAIN nm) :
                x[1] \in DOMAIN nm /\ IsPathDep(data[x[1]], x[2]) } }

\* lines 56-69: an edge from the dependency's node to the node found under
\* the directory's name
Edges(data, nm) ==
  { <<nm[e[2]], nm[e[1]]>> :
      e \in { x \in (DOMAIN data) \X (DOMAIN nm) :
                x[1] \in DOMAIN nm /\ IsPathDep(data[x[1]], x[2]) } }

(* ---------- lines 71-107: the affected set and the sorted names --------- *)

RECURSIVE SeqOf(_)
SeqOf(S) == IF S = {} THEN <<>>
            ELSE LET x == CHOOSE y \in S : TRUE IN <<x>> \o SeqOf(S \ {x})

\* petgraph::visit::Dfs: pop a node; on its first visit push its
\* undiscovered successors and yield it.
RECURSIVE Dfs(_, _, _, _)
Dfs(g, stack, discovered, out) ==
  IF stack = <<>> THEN out
  ELSE LET nx == stack[Len(stack)]
           rest == SubSeq(stack, 1, Len(stack) - 1)
       IN IF nx \in discovered
            THEN Dfs(g, rest, discovered, out)
            ELSE LET seen == discovered \cup {nx}
                     succ == {e[2] : e \in {x \in g : x[1] = nx}} \ seen
                 IN Dfs(g, rest \o SeqOf(succ), seen, out \cup {nx})

\* lines 81-86: the names of the nodes a Dfs from the seed's node yields
Reached(seed, data, nm, g) ==
  {data[n].name : n \in Dfs(g, <<nm[seed]>>, {}, {})}

\* Mutant of UnknownSeeds: no warning is printed.
NoUnknownSeeds(seeds, nm) == {}

\* lines 74-79: the seeds node_map does not contain; each gets a warning and
\* is skipped
UnknownSeeds(seeds, nm) == seeds \ DOMAIN nm

\* Mutant of ToPublish: the known seeds, without the traversal.
ToPublishSeedsOnly(seeds, data, nm, g) ==
  {data[nm[s]].name : s \in seeds \cap DOMAIN nm}

\* lines 72-87
ToPublish(seeds, data, nm, g) ==
  UNION {Reached(s, data, nm, g) : s \in seeds \cap DOMAIN nm}

Pos(o, x) == CHOOSE i \in 1..Len(o) : o[i] = x

Perms(S) ==
  {o \in [1..Cardinality(S) -> S] : \A i, j \in 1..Cardinality(S) : o[i] = o[j] => i = j}

\* Mutant of TopoOrders: any order of the nodes, the edges ignored.
AnyOrders(nodes, g) == Perms(nodes)

\* petgraph::algo::toposort, Ok: every edge points forward
TopoOrders(nodes, g) ==
  {o \in Perms(nodes) : \A e \in g : Pos(o, e[1]) < Pos(o, e[2])}

\* petgraph::algo::toposort, Err(Cycle(n)): n lies on a cycle
CycleNodes(nodes, g) ==
  {n \in nodes : \E e \in g : e[1] = n /\ n \in Dfs(g, <<e[2]>>, {}, {})}

RECURSIVE FilterSeq(_, _)
FilterSeq(s, keep) ==
  IF s = <<>> THEN <<>>
  ELSE (IF Head(s) \in keep THEN <<Head(s)>> ELSE <<>>) \o FilterSeq(Tail(s), keep)

\* Mutant of SortedProjects: the sorted names, unfiltered.
SortedProjectsUnfiltered(o, data, keep) == [i \in 1..Len(o) |-> data[o[i]].name]

\* lines 103-107: the names in sorted order, those to publish kept
SortedProjects(o, data, keep) ==
  FilterSeq([i \in 1..Len(o) |-> data[o[i]].name], keep)

(* ------------- lines 12-116: main() up to the publish loop ------------- *)

\* lines 26-116, the token and the seeds being there: the index, the graph,
\* the affected set and the order
Plan ==
  IF \E d \in ProjectPaths : disk[d].name = NoName
    \* lines 46-48
    THEN /\ result' = Exit("error", "no_name",
                           CHOOSE d \in ProjectPaths : disk[d].name = NoName)
         /\ pc' = "exit"
         /\ UNCHANGED <<all_packages_data, node_map, graph, to_publish_names,
                        warnings, sorted_projects>>
    ELSE \E nm \in NodeMaps(disk) :
      /\ all_packages_data' = disk
      /\ node_map' = nm
      /\ IF GraphPanics(disk, nm)
           \* line 58
           THEN /\ result' = Exit("panic", "node_map", "")
                /\ pc' = "exit"
                /\ UNCHANGED <<graph, to_publish_names, warnings, sorted_projects>>
           ELSE LET g == Edges(disk, nm)
                    tp == ToPublish(args, disk, nm, g)
                    orders == TopoOrders(DOMAIN disk, g)
                IN /\ graph' = g
                   /\ to_publish_names' = tp
                   /\ warnings' = UnknownSeeds(args, nm)
                   /\ IF tp = {}
                        \* lines 89-92
                        THEN /\ result' = Exit("ok", "nothing", "")
                             /\ pc' = "exit"
                             /\ sorted_projects' = sorted_projects
                        ELSE IF orders = {}
                          \* lines 94-101
                          THEN /\ \E n \in CycleNodes(DOMAIN disk, g) :
                                    result' = Exit("error", "cycle", disk[n].name)
                               /\ pc' = "exit"
                               /\ sorted_projects' = sorted_projects
                          ELSE \E o \in orders :
                                 /\ sorted_projects' = SortedProjects(o, disk, tp)
                                 /\ IF sorted_projects' = <<>>
                                      \* lines 109-112
                                      THEN /\ result' = Exit("ok", "nothing_sorted", "")
                                           /\ pc' = "exit"
                                      ELSE /\ result' = result
                                           /\ pc' = "publish"

\* Mutant of Prepare: the seeds are looked at before the token.
PrepareSeedsFirst ==
  /\ pc = "start"
  /\ IF args = {}
       THEN /\ result' = Exit("ok", "no_args", "")
            /\ pc' = "exit"
            /\ UNCHANGED <<all_packages_data, node_map, graph, to_publish_names,
                           warnings, sorted_projects>>
       ELSE IF ~token
         THEN /\ result' = Exit("error", "no_token", "")
              /\ pc' = "exit"
              /\ UNCHANGED <<all_packages_data, node_map, graph, to_publish_names,
                             warnings, sorted_projects>>
         ELSE Plan
  /\ UNCHANGED <<next_ix, outcome>>
  /\ UNCHANGED envVars
  /\ UNCHANGED auditVars

\* lines 12-116: the token, the seeds, then Plan
Prepare ==
  /\ pc = "start"
  /\ IF ~token
       \* lines 13-17
       THEN /\ result' = Exit("error", "no_token", "")
            /\ pc' = "exit"
            /\ UNCHANGED <<all_packages_data, node_map, graph, to_publish_names,
                           warnings, sorted_projects>>
       ELSE IF args = {}
         \* lines 19-23
         THEN /\ result' = Exit("ok", "no_args", "")
              /\ pc' = "exit"
              /\ UNCHANGED <<all_packages_data, node_map, graph, to_publish_names,
                             warnings, sorted_projects>>
         ELSE Plan
  /\ UNCHANGED <<next_ix, outcome>>
  /\ UNCHANGED envVars
  /\ UNCHANGED auditVars

(* ----------------- lines 174-203: update_dependents -------------------- *)

\* Mutant of UpdateDoc: the version is inserted and the path is left in place.
UpdateDocKeepsPath(m, published, version) ==
  IF IsPathDep(m, published)
    THEN [m EXCEPT !.deps[published] = PathEntry(version)]
    ELSE m

\* lines 181-191: a dependency on the published package that holds "path"
\* loses it and gets the published version
UpdateDoc(m, published, version) ==
  IF IsPathDep(m, published)
    THEN [m EXCEPT !.deps[published] = VersionEntry(version)]
    ELSE m

\* Mutant of Dirty: every manifest is marked dirty.
DirtyAll(published, data) == DOMAIN data

\* line 195: the manifests the loop marks dirty
Dirty(published, data) == {d \in DOMAIN data : IsPathDep(data[d], published)}

\* Mutant of UpdateDependents: a failed write goes unnoticed and the loop
\* carries on over the remaining directories.
UpdateDependentsWritesOn(published, version, data, failAt) ==
  LET dirty == Dirty(published, data)
  IN [data |-> [d \in DOMAIN data |->
                  IF d \in dirty THEN UpdateDoc(data[d], published, version) ELSE data[d]],
      written |-> {d \in dirty : failAt = 0 \/ Idx(d) # failAt}]

\* The loop of lines 179-201 over the directories in key order.  failAt = 0:
\* every write succeeds; otherwise the write for the directory at position
\* failAt fails and the function returns there.
UpdateDependents(published, version, data, failAt) ==
  LET dirty == Dirty(published, data)
      mutated == {d \in dirty : failAt = 0 \/ Idx(d) <= failAt}
      written == {d \in dirty : failAt = 0 \/ Idx(d) < failAt}
  IN [data |-> [d \in DOMAIN data |->
                  IF d \in mutated THEN UpdateDoc(data[d], published, version) ELSE data[d]],
      written |-> written]

\* Mutant of DiskAfter: the manifests are changed in memory and never written.
DiskAfterNoWrite(written, data) == disk

\* lines 195-200: the dirty manifests the loop reached are written to disk whole
DiskAfter(written, data) ==
  [d \in DOMAIN disk |-> IF d \in written THEN data[d] ELSE disk[d]]

\* the directories written by one update step, in key order
WriteLog(written) ==
  FilterSeq([i \in 1..Len(PkgNames) |-> PkgNames[i]], written)

(* ------------------- lines 118-154: the publish loop ------------------- *)

\* The answers of `forc publish` run in directory dir.
ToolOutcomes(dir) ==
  IF <<disk[dir].name, disk[dir].version>> \in registry
    THEN {"exists"}
    ELSE {"success", "exists", "failed"}

\* Mutant of IsFatal: every failure is taken for "already exists".
IsFatalNever(answer) == FALSE

\* lines 134-141: a failure whose error text lacks "already exists" ends the run
IsFatal(answer) == answer = "failed"

\* Mutant of ReachesUpdate: update_dependents is called after a success only.
ReachesUpdateOnSuccess(answer) == answer = "success"

\* lines 134-153: the outcomes after which line 153 is reached
ReachesUpdate(answer) == answer \in {"success", "exists"}

InLoop == pc = "publish" /\ next_ix <= Len(sorted_projects)

Current == sorted_projects[next_ix]

\* Mutant of Advance: the banner is printed with one package still to go.
AdvanceStopsEarly ==
  /\ next_ix' = next_ix + 1
  /\ IF next_ix + 1 >= Len(sorted_projects)
       THEN /\ result' = Exit("ok", "published", "")
            /\ pc' = "exit"
       ELSE /\ result' = result
            /\ pc' = pc

\* The end of an iteration: the next package or, after the last, lines 156-159.
Advance ==
  /\ next_ix' = next_ix + 1
  /\ IF next_ix + 1 > Len(sorted_projects)
       THEN /\ result' = Exit("ok", "published", "")
            /\ pc' = "exit"
       ELSE /\ result' = result
            /\ pc' = pc

\* lines 146-153, after the tool has answered
ReadVersionAndUpdate(project_name) ==
  IF project_name \notin DOMAIN all_packages_data
    THEN /\ result' = Exit("panic", "all_packages_data", project_name)
         /\ pc' = "exit"
         /\ UNCHANGED <<all_packages_data, disk, writes, next_ix>>
    ELSE IF all_packages_data[project_name].version = NoVersion
      THEN /\ result' = Exit("error", "no_version", project_name)
           /\ pc' = "exit"
           /\ UNCHANGED <<all_packages_data, disk, writes, next_ix>>
      ELSE \E failAt \in {0} \cup {Idx(d) : d \in Dirty(project_name, all_packages_data)} :
             LET u == UpdateDependents(project_name,
                                       all_packages_data[project_name].version,
                                       all_packages_data, failAt)
             IN /\ all_packages_data' = u.data
                /\ disk' = DiskAfter(u.written, u.data)
                /\ writes' = writes \o
                     [i \in 1..Cardinality(u.written) |->
                        [dir |-> WriteLog(u.written)[i],
                         dep |-> project_name]]
                /\ IF failAt = 0
                     THEN Advance
                     ELSE /\ next_ix' = next_ix
                          /\ result' = Exit("error", "write_failed", PkgNames[failAt])
                          /\ pc' = "exit"

\* One iteration of the loop of lines 118-154 and, after the last one, the
\* return of lines 156-159.
Publish(answer) ==
  /\ InLoop
  /\ IF Current \notin DOMAIN disk
       \* line 130: the tool cannot be run in a directory that does not exist
       THEN /\ answer = "failed"
            /\ result' = Exit("error", "spawn", Current)
            /\ pc' = "exit"
            /\ UNCHANGED <<registry, outcome, invoked, all_packages_data, disk, writes,
                           next_ix>>
       ELSE /\ answer \in ToolOutcomes(Current)
            /\ outcome' = answer
            /\ invoked' = Append(invoked, Current)
            /\ IF IsFatal(answer)
                 \* lines 137-140
                 THEN /\ registry' = registry
                      /\ result' = Exit("error", "publish_failed", Current)
                      /\ pc' = "exit"
                      /\ UNCHANGED <<all_packages_data, disk, writes, next_ix>>
                 ELSE /\ registry' = registry \cup
                                       {<<disk[Current].name, disk[Current].version>>}
                      /\ IF ReachesUpdate(answer)
                           THEN ReadVersionAndUpdate(Current)
                           ELSE /\ Advance
                                /\ UNCHANGED <<all_packages_data, disk, writes>>
  /\ UNCHANGED <<token, args, node_map, graph, to_publish_names, warnings,
                 sorted_projects, disk0, run, prev>>

\* line 142: the tool exits with success
PublishSucceeds == Publish("success")

\* line 135: the tool fails and its error text holds "already exists"
PublishAlreadyExists == Publish("exists")

\* line 137: the tool fails for another reason
PublishFails == Publish("failed")

(* ------------------------------ re-runs -------------------------------- *)

\* The operator runs the program again, with the same command line and
\* environment, on the tree and the registry the last run left.  A run that
\* never invoked the tool changed nothing, and running again repeats it.
Rerun ==
  /\ pc = "exit"
  /\ run < MaxRuns
  /\ invoked # <<>>
  /\ pc' = "start"
  /\ all_packages_data' = Empty
  /\ node_map' = Empty
  /\ graph' = {}
  /\ to_publish_names' = {}
  /\ warnings' = {}
  /\ sorted_projects' = <<>>
  /\ next_ix' = 1
  /\ outcome' = "none"
  /\ result' = Running
  /\ invoked' = <<>>
  /\ writes' = <<>>
  /\ disk0' = disk
  /\ run' = run + 1
  /\ prev' = [code |-> result.code, why |-> result.why, affected |-> to_publish_names]
  /\ UNCHANGED envVars

Next ==
  \/ Prepare
  \/ PublishSucceeds
  \/ PublishAlreadyExists
  \/ PublishFails
  \/ Rerun

Spec == Init /\ [][Next]_vars

(* ------------- trees whose declared names are not the directories' ------ *)

\* lines 34-49: project.name is read from the manifest and need not be the
\* directory's name.  Two such trees: src3 declares a name that is no
\* directory, and src3 and src5 declare each other's directory names.
Renamings ==
  {[d \in Pkgs |-> IF d = "src3" THEN External ELSE d],
   [d \in Pkgs |-> CASE d = "src3" -> "src5"
                     [] d = "src5" -> "src3"
                     [] OTHER -> d]}

NamedManifests ==
  {[d \in Pkgs |-> [t[d] EXCEPT !.name = r[d]]] : t \in Manifests, r \in Renamings}

InitNames ==
  /\ token \in BOOLEAN
  /\ args \in SeedSets
  /\ disk \in NamedManifests
  /\ registry = {}
  /\ pc = "start"
  /\ all_packages_data = Empty
  /\ node_map = Empty
  /\ graph = {}
  /\ to_publish_names = {}
  /\ warnings = {}
  /\ sorted_projects = <<>>
  /\ next_ix = 1
  /\ outcome = "none"
  /\ result = Running
  /\ invoked = <<>>
  /\ writes = <<>>
  /\ disk0 = disk
  /\ run = 1
  /\ prev = [code |-> "none", why |-> "", affected |-> {}]

SpecNames == InitNames /\ [][Next]_vars

(* ------------------------------ claims --------------------------------- *)

\* The manifest m declares a local-path dependency on n.
DeclaresPath(m, n) == m.deps[n].present /\ m.deps[n].path

\* the package of the latest loop iteration
Latest == invoked[Len(invoked)]

\* The latest loop iteration ran to its end: version read, dependents updated.
StepDone == invoked # <<>> /\ (pc = "publish" \/ result.why = "published")

\* C1: whenever a package that has been handed to the publish tool declared, at
\* the start of the run, a local-path dependency on a package of the Affected
\* Set, the tool was invoked for that package strictly earlier.
C1_PublishRespectsDependencies ==
  \A i \in 1..Len(invoked) : \A b \in to_publish_names :
    DeclaresPath(disk0[invoked[i]], b)
      => \E j \in 1..(i - 1) : invoked[j] = b

\* C1 witness: a dependency and its dependent both invoked, with a package
\* outside the Affected Set in the graph.
C1_Witness ==
  /\ Len(invoked) >= 2
  /\ DeclaresPath(disk0[invoked[2]], invoked[1])
  /\ Pkgs \ to_publish_names # {}
  /\ Cardinality(args) = 2

\* C2: when a package P has been published successfully and its loop iteration
\* is over, every other package that declared a local-path dependency on P holds,
\* in memory and on disk, the entry { version = V } for P, V being P's declared
\* version, and no path.
C2_DependentsPinnedAfterSuccess ==
  (outcome = "success" /\ StepDone) =>
    \A d \in Pkgs \ {Latest} :
      DeclaresPath(disk0[d], Latest) =>
        /\ disk[d].deps[Latest] = VersionEntry(disk0[Latest].version)
        /\ all_packages_data[d].deps[Latest] = VersionEntry(disk0[Latest].version)

\* C2 witness: src20 -> src3 -> src5 with seed src20; src20 is published and
\* src3, not yet published, shows src20 = "0.8.1" instead of its path.
C2_Witness ==
  /\ pc = "publish"
  /\ args = {"src20"}
  /\ sorted_projects = <<"src20", "src3", "src5">>
  /\ invoked = <<"src20">>
  /\ outcome = "success"
  /\ disk0["src3"].deps["src20"] = PathEntry(OldVersion)
  /\ disk["src3"].deps["src20"] = VersionEntry("0.8.1")
  /\ DeclaresPath(disk["src5"], "src3")

C4_NoPathToEarlierPackage ==
  InLoop => \A j \in 1..(next_ix - 1) : ~DeclaresPath(disk[Current], sorted_projects[j])

\* C4 witness: the package about to be published declared a path to its
\* predecessor, which the tool reported as already published.
C4_Witness ==
  /\ InLoop
  /\ next_ix = 2
  /\ DeclaresPath(disk0[Current], sorted_projects[1])
  /\ outcome = "exists"

\* The tree on disk as the logged writes make it from the tree the run started on.
DiskFromWrites ==
  [d \in Pkgs |->
     [disk0[d] EXCEPT !.deps =
        [n \in DepNames |->
           IF \E k \in 1..Len(writes) : writes[k].dir = d /\ writes[k].dep = n
             THEN VersionEntry(disk0[n].version)
             ELSE disk0[d].deps[n]]]]

\* C5: after a failure of the tool for X without the "already exists" marker
\* the run is over with an error naming X (so X is the last package invoked),
\* no manifest was written for X, and the disk holds exactly the writes of the
\* earlier packages' steps.
C5_HardFailureAborts ==
  outcome = "failed" =>
    /\ pc = "exit"
    /\ result = Exit("error", "publish_failed", Latest)
    /\ next_ix = Len(invoked)
    /\ \A k \in 1..Len(writes) :
         /\ writes[k].dep # Latest
         /\ \E j \in 1..(Len(invoked) - 1) : invoked[j] = writes[k].dep
    /\ disk = DiskFromWrites

\* C5 witness: the second package fails after the first one's step rewrote a
\* manifest, and a third package is left.
C5_Witness ==
  /\ Len(invoked) = 2
  /\ outcome = "failed"
  /\ Len(sorted_projects) = 3
  /\ Len(writes) >= 1
  /\ disk # disk0

\* the packages that declared, when the run started, a local-path dependency on
\* a member of S: the heads of the dependency -> dependent edges leaving S
Dependents(S) == {d \in Pkgs : \E b \in S : DeclaresPath(disk0[d], b)}

\* S and, n times over, the dependents of its members
RECURSIVE DependentsClosure(_, _)
DependentsClosure(S, n) ==
  IF n = 0 THEN S ELSE DependentsClosure(S \cup Dependents(S), n - 1)

\* the packages reachable from x along dependency -> dependent edges, x included
Affected(x) == DependentsClosure({x}, Cardinality(Pkgs))

\* a lies on a cycle: one of its dependents leads back to it
OnCycle(a) == a \in DependentsClosure(Dependents({a}), Cardinality(Pkgs))

HasCycle == \E a \in Pkgs : OnCycle(a)

\* the run has built its graph and is over
EndedWithGraph == pc = "exit" /\ all_packages_data # Empty

\* C6 as claimed: with a cycle among the manifests every run with a non-empty
\* seed set ends in an error naming a node of a cycle, without invocation or write.
C6_CycleFailsForEverySeedSet ==
  (HasCycle /\ EndedWithGraph /\ args # {}) =>
    /\ result.code = "error"
    /\ result.why = "cycle"
    /\ OnCycle(result.who)
    /\ invoked = <<>>
    /\ writes = <<>>

\* C6 amended: with a cycle among the manifests no run invokes the tool, writes
\* a manifest or produces an order, and every run whose seed set names at least
\* one known package ends in an error naming a node of a cycle.
C6_CycleFailsForKnownSeed ==
  HasCycle =>
    /\ invoked = <<>>
    /\ writes = <<>>
    /\ sorted_projects = <<>>
    /\ pc # "publish"
    /\ (EndedWithGraph /\ args \cap Pkgs # {}) =>
         /\ result.code = "error"
         /\ result.why = "cycle"
         /\ OnCycle(result.who)

\* C6 witness: a run that ended on a cycle which does not pass through
\* every package, with a seed outside the cycle.
C6_Witness ==
  /\ HasCycle
  /\ EndedWithGraph
  /\ result.why = "cycle"
  /\ \E a \in args \cap Pkgs : ~OnCycle(a)

\* the run has computed its Affected Set
Planned == all_packages_data # Empty /\ pc \in {"publish", "exit"} /\ result.code # "panic"

\* C7: the Affected Set is the union over the known seeds of the packages
\* reachable from the seed along dependency -> dependent edges; it holds every
\* known seed and every dependent of each of its members.
C7_AffectedSetIsReachability ==
  Planned =>
    /\ args \cap Pkgs \subseteq to_publish_names
    /\ Dependents(to_publish_names) \subseteq to_publish_names
    /\ to_publish_names = UNION {Affected(x) : x \in args \cap Pkgs}

\* C7 witness: two known seeds, neither reaching all that the two reach together.
C7_Witness ==
  /\ Planned
  /\ Cardinality(args \cap Pkgs) = 2
  /\ to_publish_names = Pkgs
  /\ \A x \in args : Affected(x) # Pkgs /\ Affected(x) # {x}

\* C8 as claimed: when a package of the Publish Order declares no version the
\* tool is never invoked and no manifest is written.
C8_MissingVersionBeforeAnyPublish ==
  (\E i \in 1..Len(sorted_projects) : disk0[sorted_projects[i]].version = NoVersion) =>
    /\ invoked = <<>>
    /\ writes = <<>>

\* C8, the failing run: src3 declares no version; src20 was handed to the tool
\* and its dependent's manifest rewritten, src3 was handed to the tool too, and
\* only then did the run stop on the missing version.
C8_Witness ==
  /\ pc = "exit"
  /\ result = Exit("error", "no_version", "src3")
  /\ disk0["src3"].version = NoVersion
  /\ invoked = <<"src20", "src3">>
  /\ Len(writes) = 1
  /\ disk # disk0
  /\ <<"src20", "0.8.1">> \in registry

\* C9: throughout a run that follows a successful run with the same seeds the
\* tool has answered nothing but "already exists", no manifest is written or
\* changed, and the run ends with exit code zero.
C9_RerunIsNoOp ==
  (run > 1 /\ prev.code = "ok") =>
    /\ outcome \in {"none", "exists"}
    /\ writes = <<>>
    /\ disk = disk0
    /\ pc = "exit" => result.code = "ok"

\* C9 witness: the second run has ended after invoking the tool; the first
\* published three packages, of which the second run found fewer affected.
C9_Witness ==
  /\ run = 2
  /\ prev.code = "ok"
  /\ Cardinality(prev.affected) = 3
  /\ pc = "exit"
  /\ result.why = "published"
  /\ Len(invoked) = 1

\* C10 as claimed: no manifest of a package without local dependents is written.
C10_NoDependentsNeverWritten ==
  \A k \in 1..Len(writes) : \E a \in Pkgs : DeclaresPath(disk0[a], writes[k].dir)

\* C10 amended: a package that declares no local-path dependency keeps its
\* manifest, in memory and on disk, whatever is published.
C10_NoPathDependencyNeverWritten ==
  \A d \in Pkgs :
    (\A n \in DepNames : ~DeclaresPath(disk0[d], n)) =>
      /\ disk[d] = disk0[d]
      /\ all_packages_data # Empty => all_packages_data[d] = disk0[d]
      /\ \A k \in 1..Len(writes) : writes[k].dir # d

\* C10 witness: a package with a version reference to P and no path, untouched
\* after P's step rewrote another manifest.
C10_Witness ==
  \E d \in Pkgs :
    /\ \A n \in DepNames : ~DeclaresPath(disk0[d], n)
    /\ Len(invoked) = 1
    /\ StepDone
    /\ disk0[d].deps[invoked[1]].present
    /\ Len(writes) = 1
    /\ writes[1].dep = invoked[1]

\* the entry for P that update_dependents leaves in a manifest
Pinned(P) == VersionEntry(disk0[P].version)

\* the manifest m of directory d differs from the one the run started on in
\* nothing but entries for packages the tool was invoked for, each of which
\* was a path and is now the version reference
OnlyPinnedEntriesDiffer(m, d) ==
  \/ m = disk0[d]
  \/ /\ m.name = disk0[d].name
     /\ m.version = disk0[d].version
     /\ \A n \in DepNames :
          m.deps[n] # disk0[d].deps[n] =>
            /\ DeclaresPath(disk0[d], n)
            /\ \E i \in 1..Len(invoked) : invoked[i] = n
            /\ m.deps[n] = Pinned(n)

\* C11: the updates of a run change nothing but the P entries of manifests that
\* declared a local-path dependency on a published P: a manifest is written for
\* P only if it declared a path to P, and every manifest, in memory and on
\* disk, keeps its name, its version and every entry that was no path to a
\* package handed to the tool (no entry, a version reference, another package).
C11_UpdateChangesOnlyThePathEntry ==
  /\ \A k \in 1..Len(writes) : DeclaresPath(disk0[writes[k].dir], writes[k].dep)
  /\ \A d \in Pkgs : OnlyPinnedEntriesDiffer(disk[d], d)
  /\ \/ all_packages_data = Empty
     \/ all_packages_data = disk
     \/ \A d \in Pkgs : OnlyPinnedEntriesDiffer(all_packages_data[d], d)

\* C11 witness: after P's step one manifest was rewritten; it holds a second
\* entry, a version reference, and the other manifests have no entry for P.
C11_Witness ==
  \E d, e \in Pkgs :
    /\ StepDone
    /\ Len(invoked) = 1
    /\ d # e
    /\ DeclaresPath(disk0[d], Latest)
    /\ disk[d].deps[Latest] = Pinned(Latest)
    /\ \E n \in DepNames \ {Latest} : disk[d].deps[n] = VersionEntry(OldVersion)
    /\ ~disk0[e].deps[Latest].present
    /\ disk[e] = disk0[e]
    /\ Len(writes) = 1

\* the directory whose manifest declares the name n
DirOf(n) == CHOOSE d \in Pkgs : disk0[d].name = n

Declared(n) == \E d \in Pkgs : disk0[d].name = n

\* the edges between directories that the manifests' path entries, resolved
\* by declared name, stand for: from the dependency's to the dependent's
DeclaredEdges ==
  {<<DirOf(x[2]), x[1]>> :
     x \in {y \in Pkgs \X DepNames : Declared(y[2]) /\ DeclaresPath(disk0[y[1]], y[2])}}

\* C12 as claimed, over trees in which a declared name differs from its
\* directory: the run does not panic or fail to start the tool, the graph's
\* edges are those the declared names give, the tool is invoked, for a declared
\* name, in the directory of the manifest declaring it, and the version a
\* dependent is pinned to is that manifest's.
C12_NamesTrackedSeparately ==
  /\ result.code # "panic"
  /\ result.why # "spawn"
  /\ (all_packages_data # Empty /\ pc # "start") => graph = DeclaredEdges
  /\ \A i \in 1..Len(invoked) : disk0[invoked[i]].name = invoked[i]
  /\ \A k \in 1..Len(writes) :
       disk[writes[k].dir].deps[writes[k].dep]
         = VersionEntry(disk0[DirOf(writes[k].dep)].version)

\* C12, the failing runs: the manifest in src3 declares the name src5 and the
\* one in src5 the name src3; seeded with the name src5 the tool ran in the
\* directory src5, whose manifest declares src3, and the dependent of the name
\* src5 was pinned to the version of the manifest in directory src5.
C12_Witness ==
  /\ disk0["src3"].name = "src5"
  /\ disk0["src5"].name = "src3"
  /\ args = {"src5"}
  /\ invoked = <<"src5">>
  /\ outcome = "success"
  /\ <<"src3", OwnVersion["src5"]>> \in registry
  /\ Len(writes) = 1
  /\ writes[1].dep = "src5"
  /\ disk[writes[1].dir].deps["src5"] = VersionEntry(OwnVersion["src5"])

\* C13: once the seeds have been resolved, a warning has been printed for
\* exactly the seeds that name no package; when no seed names a package the
\* run is over with exit code zero, no invocation and no write; when known and
\* unknown seeds are mixed the Affected Set is what the known seeds reach.
C13_UnknownSeedsSkipped ==
  Planned =>
    /\ warnings = args \ Pkgs
    /\ args \cap Pkgs = {} =>
         /\ pc = "exit"
         /\ result = Exit("ok", "nothing", "")
         /\ to_publish_names = {}
         /\ invoked = <<>>
         /\ writes = <<>>
         /\ disk = disk0
    /\ (args \cap Pkgs # {} /\ args \ Pkgs # {}) =>
         to_publish_names = DependentsClosure(args \cap Pkgs, Cardinality(Pkgs))

\* C13, the mixed case reached: a known and an unknown seed; the unknown one was warned about
\* and the run went on to publish what the known one reaches.
C13_WitnessMixed ==
  /\ args = {"src3", External}
  /\ warnings = {External}
  /\ to_publish_names = {"src3", "src5"}
  /\ invoked = <<"src3">>

\* C13 witness: the only seed is unknown, a manifest even declares a path to
\* that name, and the run is over with exit code zero.
C13_Witness ==
  /\ args = {External}
  /\ warnings = {External}
  /\ pc = "exit"
  /\ result.code = "ok"
  /\ \E d \in Pkgs : DeclaresPath(disk0[d], External)

\* the registry holds the package of directory p at its declared version
Published(p) == <<disk[p].name, disk[p].version>> \in registry

\* C14 as claimed: when the run after a run that stopped on a hard publish
\* failure ends with exit code zero, every package of the first run's Affected
\* Set is published and no manifest declares a path to a published package.
C14_RerunCompletesRelease ==
  (run > 1 /\ prev.why = "publish_failed" /\ pc = "exit" /\ result.code = "ok") =>
    /\ \A p \in prev.affected : Published(p)
    /\ \A d \in Pkgs : \A p \in Pkgs : Published(p) => ~DeclaresPath(disk[d], p)

\* C14, the failing re-run: the first run published src20, pinned src3 to it
\* and stopped on src3; the second run, with the same seed, finds src3 no
\* longer reachable from src20, handles src20 alone and reports success with
\* src3 unpublished.
C14_Witness ==
  /\ run = 2
  /\ args = {"src20"}
  /\ prev.why = "publish_failed"
  /\ prev.affected = {"src20", "src3"}
  /\ pc = "exit"
  /\ result = Exit("ok", "published", "")
  /\ invoked = <<"src20">>
  /\ outcome = "exists"
  /\ ~Published("src3")
  /\ disk["src3"].deps["src20"] = VersionEntry("0.8.1")

\* nothing was read, collected, invoked or written
NoIO ==
  /\ all_packages_data = Empty
  /\ node_map = Empty
  /\ graph = {}
  /\ to_publish_names = {}
  /\ warnings = {}
  /\ sorted_projects = <<>>
  /\ invoked = <<>>
  /\ writes = <<>>
  /\ disk = disk0
  /\ registry = {}

\* C15: without the token the run, once started, is over with a non-zero exit
\* and nothing was enumerated, read, invoked or written, whatever the seeds,
\* none included; with the token and no seeds it is over with exit code zero
\* and again nothing was done.
C15_TokenCheckedBeforeAnyIO ==
  pc # "start" =>
    /\ ~token => (pc = "exit" /\ result = Exit("error", "no_token", "") /\ NoIO)
    /\ (token /\ args = {}) => (pc = "exit" /\ result = Exit("ok", "no_args", "") /\ NoIO)

\* C15 witness: no token and no seeds, on a tree with path dependencies; the
\* run is over with the error.
C15_Witness ==
  /\ ~token
  /\ args = {}
  /\ pc = "exit"
  /\ result.code = "error"
  /\ \E d \in Pkgs : DeclaresPath(disk[d], "src20")

\* C16: from the moment the loop is entered the Publish Order lists every
\* package of the Affected Set once and nothing else, the Affected Set is
\* closed under the path dependencies of the tree the run started on, whatever
\* the manifests say by now, and the packages the tool was invoked for are the
\* first packages of that order, in that order: once each, none from outside.
C16_OrderIsFixedPermutation ==
  (pc = "publish" \/ invoked # <<>>) =>
    /\ Len(sorted_projects) = Cardinality(to_publish_names)
    /\ {sorted_projects[i] : i \in 1..Len(sorted_projects)} = to_publish_names
    /\ Dependents(to_publish_names) \subseteq to_publish_names
    /\ Len(invoked) <= Len(sorted_projects)
    /\ \A i \in 1..Len(invoked) : invoked[i] = sorted_projects[i]

\* C16 witness: src20 is published and src3's path to it is gone from the
\* disk, so that a new traversal from the seed would stop at src20; the order
\* still lists src3, which is next, and a package outside the order exists.
C16_Witness ==
  /\ InLoop
  /\ args = {"src20"}
  /\ invoked = <<"src20">>
  /\ sorted_projects = <<"src20", "src3">>
  /\ Current = "src3"
  /\ DeclaresPath(disk0["src3"], "src20")
  /\ \A d \in Pkgs : ~DeclaresPath(disk[d], "src20")

\* C17 as claimed, over every indexed tree: graph construction does not fail,
\* and the graph holds an edge from B's node to A's node exactly when A's
\* manifest declares a path dependency on the declared name B of a package; a
\* version reference or a path to an unknown name gives no edge.
C17_EdgesExactlyDeclaredPaths ==
  (all_packages_data # Empty /\ pc # "start") =>
    /\ result # Exit("panic", "node_map", "")
    /\ graph = DeclaredEdges

\* C17, the failing construction: the manifest in src3 declares a name that is
\* no directory and has a dependency entry; the index succeeded and the graph
\* builder panicked.
C17_Witness ==
  /\ disk0["src3"].name = External
  /\ \E n \in DepNames : disk0["src3"].deps[n].present
  /\ all_packages_data = disk0
  /\ pc = "exit"
  /\ result = Exit("panic", "node_map", "")
  /\ graph = {}

\* C17, the second failing construction: src3 and src5 declare each other's
\* directory names; the edge for the path entry in src5's manifest leaves the
\* right node and enters the node of the other package.
C17_WitnessWrongNode ==
  /\ disk0["src5"].name = "src3"
  /\ disk0["src3"].name = "src5"
  /\ DeclaresPath(disk0["src5"], "src20")
  /\ graph = {<<"src20", "src3">>}

\* C18: after a manifest write failed in the update for P the run is over with
\* a non-zero exit and P is the last package the tool was invoked for; the
\* manifest whose write failed and those of the directories after it are, on
\* disk, as the run found them; every manifest written before, in this step or
\* an earlier one, still holds the pinned entry.
C18_WriteFailureAborts ==
  result.why = "write_failed" =>
    /\ pc = "exit"
    /\ result.code = "error"
    /\ next_ix = Len(invoked)
    /\ DeclaresPath(disk0[result.who], Latest)
    /\ \A d \in Pkgs :
         IF Idx(d) >= Idx(result.who)
           THEN disk[d].deps[Latest] = disk0[d].deps[Latest]
           ELSE DeclaresPath(disk0[d], Latest) =>
                  \E k \in 1..Len(writes) : writes[k] = [dir |-> d, dep |-> Latest]
    /\ \A k \in 1..Len(writes) :
         disk[writes[k].dir].deps[writes[k].dep] = Pinned(writes[k].dep)

\* C18 witness: src3 and src5 both declared a path to src20; in the update for
\* src20 the manifest of src3 was written and the write of src5's failed.
C18_Witness ==
  /\ result = Exit("error", "write_failed", "src5")
  /\ invoked = <<"src20">>
  /\ Len(sorted_projects) = 3
  /\ Len(writes) = 1
  /\ writes[1].dir = "src3"
  /\ disk["src3"].deps["src20"] = VersionEntry("0.8.1")
  /\ DeclaresPath(disk["src5"], "src20")

\* C19: when the run has ended with the success banner, the Affected Set is
\* not empty, the tool was invoked exactly once for each of its packages and
\* for nothing else, its last answer was a success or "already exists", and
\* the registry holds every package of the Affected Set at its declared
\* version, as it does after either of those answers.
C19_SuccessMeansAllInvoked ==
  result.why = "published" =>
    /\ pc = "exit"
    /\ result.code = "ok"
    /\ to_publish_names # {}
    /\ Len(invoked) = Cardinality(to_publish_names)
    /\ \A p \in to_publish_names :
         /\ Cardinality({i \in 1..Len(invoked) : invoked[i] = p}) = 1
         /\ Published(p)
    /\ outcome \in {"success", "exists"}

\* C19 witness: a run over all three packages ended with the banner; the
\* last answer was "already exists" and a manifest was rewritten on the way.
C19_Witness ==
  /\ result = Exit("ok", "published", "")
  /\ to_publish_names = Pkgs
  /\ Len(invoked) = 3
  /\ outcome = "exists"
  /\ writes # <<>>
  /\ run = 1

==========================================================================
